---- MODULE Spec2Model ----
(***************************************************************************)
(* mdBook: the book scaffolder (src/book/init.rs, BookBuilder) and the     *)
(* Markdown passthrough renderer (src/renderer/markdown_renderer.rs).      *)
(*                                                                         *)
(* The filesystem is a function from the paths that exist to their entry.  *)
(* A path is a sequence of components, <<>> is the filesystem root.  The   *)
(* content of a file is a sequence of tokens (text pieces and "\n").       *)
(***************************************************************************)
EXTENDS Integers, Sequences, FiniteSets, TLC

VARIABLES
    fs,               \* the filesystem: [paths that exist -> entry]
    create_gitignore, \* BookBuilder.create_gitignore
    copy_theme,       \* BookBuilder.copy_theme
    config,           \* BookBuilder.config
    pc,               \* position of the builder's caller / of build()
    result,           \* what the last build() returned: [kind, path]
    fsAtCall,         \* history: the filesystem when the running build() was called
    builds,           \* number of build() calls made so far
    edits,            \* number of user edits made so far
    faults,           \* number of refusals by the environment so far
    ran,              \* history: the stages the running build() has run, in order
    chapterOneFailedAt, \* history: the build() call that failed with CreateChapterOne (0: none)
    rpc,              \* per render() call: its position
    ridx,             \* per render() call: index of the book item it is at
    rbook,            \* per render() call: ctx.book, the sequence of BookItems
    rresult,          \* per render() call: what it returned
    rlog,             \* history, per render() call: item indices written, in order
    rstale,           \* history, per render() call: what was at or below destination at the call
    rshared           \* history, per render() call: another call ran since it was entered

bvars == <<create_gitignore, copy_theme, config, pc, result, fsAtCall,
           builds, edits, faults, ran, chapterOneFailedAt>>
rvars == <<rpc, ridx, rbook, rresult, rlog, rstale, rshared>>
vars == <<fs, bvars, rvars>>

(***************************** bounds **************************************)
MaxBuilds == 2   \* build() calls in one behaviour
MaxEdits == 1    \* user edits in one behaviour
MaxFaults == 1   \* refusals by the environment (I/O errors) in one behaviour
MaxItems == 3    \* items of a book handed to render()
MaxConcItems == 1 \* items of a book handed to a render() that runs beside another

(***************************** filesystem **********************************)
Dir == [kind |-> "dir", data |-> <<>>]
FileOf(d) == [kind |-> "file", data |-> d]

Exists(f, p) == p \in DOMAIN f
IsDir(f, p) == p \in DOMAIN f /\ f[p].kind = "dir"
IsFile(f, p) == p \in DOMAIN f /\ f[p].kind = "file"

Prefix(p, k) == SubSeq(p, 1, k)
Parent(p) == Prefix(p, Len(p) - 1)
\* q lies strictly below p
Under(p, q) == Len(q) > Len(p) /\ Prefix(q, Len(p)) = p

\* the entries strictly below p
EntriesUnder(f, p) == {q \in DOMAIN f : Under(p, q)}
FilesUnder(f, p) == {q \in DOMAIN f : Under(p, q) /\ f[q].kind = "file"}

Put(f, p, e) == [q \in (DOMAIN f) \cup {p} |-> IF q = p THEN e ELSE f[q]]

\* Path::join for a relative right-hand side
Join(p, q) == p \o q

\* Path::display: the components separated by "/"
RECURSIVE Display(_)
Display(p) ==
    IF p = <<>> THEN <<>>
    ELSE IF Len(p) = 1 THEN <<p[1]>>
    ELSE <<p[1], "/">> \o Display(Tail(p))

\* The entry the operating system reaches through the path p: a ".."
\* component leads back to the directory above (the root is above itself).
RECURSIVE ResolveFrom(_, _, _)
ResolveFrom(p, i, at) ==
    IF i > Len(p) THEN at
    ELSE IF p[i] = ".."
    THEN ResolveFrom(p, i + 1, IF at = <<>> THEN at ELSE Parent(at))
    ELSE ResolveFrom(p, i + 1, Append(at, p[i]))

Resolve(p) == IF \A i \in 1..Len(p) : p[i] # ".." THEN p ELSE ResolveFrom(p, 1, <<>>)

\* std::fs::create_dir_all(p): creates every missing prefix of p, shortest
\* first; fails at a prefix that is a file, or at the missing prefix number
\* `fault` when the environment refuses the mkdir (fault = 0: no refusal).
\* The prefixes made before the failure stay.
RECURSIVE CreateDirAllFrom(_, _, _, _)
CreateDirAllFrom(f, p, i, fault) ==
    IF i > Len(p) THEN [ok |-> TRUE, fs |-> f]
    ELSE LET q == Resolve(Prefix(p, i)) IN
         IF IsDir(f, q) THEN CreateDirAllFrom(f, p, i + 1, fault)
         ELSE IF Exists(f, q) \/ fault = i THEN [ok |-> FALSE, fs |-> f]
         ELSE CreateDirAllFrom(Put(f, q, Dir), p, i + 1, fault)

CreateDirAll(f, p, fault) == CreateDirAllFrom(f, p, 1, fault)

\* File::create(path) followed by the writes of `data` (also std::fs::write).
\* fault = 0: the environment refuses nothing; fault = 1: it refuses the
\* create; fault = 2 + n: a write fails after n tokens went out (n < Len(data)).
\* File::create fails without a parent directory and on a directory; once it
\* succeeded the old content is gone.
WriteBody(f, path, data, fault) ==
    IF ~IsDir(f, Parent(path)) \/ IsDir(f, path) \/ fault = 1
    THEN [ok |-> FALSE, fs |-> f]
    ELSE IF fault >= 2 /\ fault - 2 < Len(data)
    THEN [ok |-> FALSE, fs |-> Put(f, path, FileOf(SubSeq(data, 1, fault - 2)))]
    ELSE [ok |-> TRUE, fs |-> Put(f, path, FileOf(data))]

try_create_and_write_file(f, path, data, fault) == WriteBody(f, path, data, fault)

EmptyFS == [p \in {<<>>} |-> Dir]

(***************************** BookBuilder *******************************)
\* BookBuilder.root: the directory the book is generated in
Root == <<"r">>

\* Config::default(): book.src = "src", build.build_dir = "book", no html.theme.
\* html.theme is an Option: <<>> is None, <<p>> is Some(p).
DefaultConfig == [src |-> <<"src">>, build_dir |-> <<"book">>, theme |-> <<>>]
AltConfig == [src |-> <<"docs">>, build_dir |-> <<"out", "book">>, theme |-> <<<<"th">>>>]
Configs == {DefaultConfig, AltConfig}

Ok == [kind |-> "Ok", path |-> <<>>]
None == [kind |-> "None", path |-> <<>>]
Err(k, p) == [kind |-> k, path |-> p]

\* the three writeln! of the stub summary and the one of the stub chapter
StubSummary == <<"# Summary", "\n", "\n", "- [Chapter 1](./chapter_1.md)", "\n">>
StubChapter == <<"# Chapter 1", "\n">>

\* toml::to_vec(&self.config)
Serialize(cfg) ==
    <<"[book] src = ">> \o Display(cfg.src) \o <<"\n", "[build] build-dir = ">>
        \o Display(cfg.build_dir) \o <<"\n">>
        \o (IF cfg.theme = <<>> THEN <<>>
            ELSE <<"[output.html] theme = ">> \o Display(cfg.theme[1]) \o <<"\n">>)

SrcDir(cfg) == Join(Root, cfg.src)
BuildDir(cfg) == Join(Root, cfg.build_dir)
SummaryPath(cfg) == Join(SrcDir(cfg), <<"SUMMARY.md">>)
ChapterOnePath(cfg) == Join(SrcDir(cfg), <<"chapter_1.md">>)
GitignorePath == Join(Root, <<".gitignore">>)
BookTomlPath == Join(Root, <<"book.toml">>)

\* create_directory_structure: create_dir_all of root, src and build, in this
\* order; the create_dir_all number `which` meets the refusal `at`.
RECURSIVE ScaffoldFrom(_, _, _, _, _)
ScaffoldFrom(f, dirs, i, which, at) ==
    IF i > Len(dirs) THEN [fs |-> f, res |-> Ok]
    ELSE LET r == CreateDirAll(f, dirs[i], IF which = i THEN at ELSE 0) IN
         IF r.ok THEN ScaffoldFrom(r.fs, dirs, i + 1, which, at)
         ELSE [fs |-> r.fs, res |-> Err("CreateScaffoldDirectory", dirs[i])]

\* create_directory_structure forgetting the build directory
create_directory_structure_nobuild(f, cfg, which, at) ==
    ScaffoldFrom(f, <<Root, SrcDir(cfg)>>, 1, which, at)

create_directory_structure(f, cfg, which, at) ==
    ScaffoldFrom(f, <<Root, SrcDir(cfg), BuildDir(cfg)>>, 1, which, at)

\* create_stub_files without the summary.exists() guard
create_stub_files_unguarded(f, cfg, which, fault) ==
    LET s == try_create_and_write_file(f, SummaryPath(cfg), StubSummary,
                                       IF which = 1 THEN fault ELSE 0) IN
    IF ~s.ok THEN [fs |-> s.fs, res |-> Err("CreateSummary", SummaryPath(cfg))]
    ELSE LET c == try_create_and_write_file(s.fs, ChapterOnePath(cfg), StubChapter,
                                            IF which = 2 THEN fault ELSE 0) IN
         IF ~c.ok THEN [fs |-> c.fs, res |-> Err("CreateChapterOne", ChapterOnePath(cfg))]
         ELSE [fs |-> c.fs, res |-> Ok]

\* create_stub_files writing chapter_1.md whenever it is not a complete file
create_stub_files_repairing(f, cfg, which, fault) ==
    IF ~Exists(f, SummaryPath(cfg))
    THEN create_stub_files_unguarded(f, cfg, which, fault)
    ELSE IF IsFile(f, ChapterOnePath(cfg)) /\ f[ChapterOnePath(cfg)].data # <<>>
    THEN [fs |-> f, res |-> Ok]
    ELSE LET c == try_create_and_write_file(f, ChapterOnePath(cfg), StubChapter,
                                            IF which = 2 THEN fault ELSE 0) IN
         IF ~c.ok THEN [fs |-> c.fs, res |-> Err("CreateChapterOne", ChapterOnePath(cfg))]
         ELSE [fs |-> c.fs, res |-> Ok]

\* create_stub_files: nothing when SUMMARY.md exists, else the stub summary
\* and then chapter_1.md; the write number `which` meets `fault`.
create_stub_files(f, cfg, which, fault) ==
    IF ~Exists(f, SummaryPath(cfg))
    THEN LET s == try_create_and_write_file(f, SummaryPath(cfg), StubSummary,
                                            IF which = 1 THEN fault ELSE 0) IN
         IF ~s.ok THEN [fs |-> s.fs, res |-> Err("CreateSummary", SummaryPath(cfg))]
         ELSE LET c == try_create_and_write_file(s.fs, ChapterOnePath(cfg), StubChapter,
                                                 IF which = 2 THEN fault ELSE 0) IN
              IF ~c.ok THEN [fs |-> c.fs, res |-> Err("CreateChapterOne", ChapterOnePath(cfg))]
              ELSE [fs |-> c.fs, res |-> Ok]
    ELSE [fs |-> f, res |-> Ok]

\* build_gitignore appending to the file instead of creating it afresh
build_gitignore_append(f, cfg, fault) ==
    LET old == IF IsFile(f, GitignorePath) THEN f[GitignorePath].data ELSE <<>>
        w == try_create_and_write_file(f, GitignorePath,
                                       old \o Display(cfg.build_dir) \o <<"\n">>, fault) IN
    IF w.ok THEN [fs |-> w.fs, res |-> Ok]
    ELSE [fs |-> w.fs, res |-> Err("CreateGitignore", GitignorePath)]

\* build_gitignore reporting its failure under the kind of the configuration write
build_gitignore_as_config(f, cfg, fault) ==
    LET w == try_create_and_write_file(f, GitignorePath,
                                       Display(cfg.build_dir) \o <<"\n">>, fault) IN
    IF w.ok THEN [fs |-> w.fs, res |-> Ok]
    ELSE [fs |-> w.fs, res |-> Err("CreateConfig", BookTomlPath)]

\* build_gitignore: writeln!(f, "{}", build_dir.display()) into root/.gitignore
build_gitignore(f, cfg, fault) ==
    LET w == try_create_and_write_file(f, GitignorePath,
                                       Display(cfg.build_dir) \o <<"\n">>, fault) IN
    IF w.ok THEN [fs |-> w.fs, res |-> Ok]
    ELSE [fs |-> w.fs, res |-> Err("CreateGitignore", GitignorePath)]

\* the theme directory copy_across_theme resolves
ThemeDir(cfg) ==
    Join(Root, IF cfg.theme # <<>> THEN cfg.theme[1] ELSE Join(cfg.src, <<"theme">>))
CssDir(cfg) == Join(ThemeDir(cfg), <<"css">>)

\* the embedded default of a theme file (theme::INDEX, theme::FAVICON, ...)
Embedded(name) == <<name>>

\* the steps of copy_across_theme in program order
ThemeOps(cfg) ==
    LET t == ThemeDir(cfg)
        c == CssDir(cfg)
        file(d, n, k) == [op |-> "file", path |-> Join(d, <<n>>), data |-> Embedded(k)]
    IN << [op |-> "dir", path |-> t, data |-> <<>>],
          [op |-> "dir", path |-> c, data |-> <<>>],
          file(t, "index.hbs", "theme::INDEX"),
          file(t, "favicon.png", "theme::FAVICON"),
          file(t, "book.js", "theme::JS"),
          file(t, "highlight.css", "theme::HIGHLIGHT_CSS"),
          file(t, "highlight.js", "theme::HIGHLIGHT_JS"),
          file(c, "general.css", "theme::GENERAL_CSS"),
          file(c, "chrome.css", "theme::CHROME_CSS"),
          file(c, "print.css", "theme::PRINT_CSS"),
          file(c, "variables.css", "theme::VARIABLES_CSS") >>

RECURSIVE ThemeFrom(_, _, _, _, _)
ThemeFrom(f, ops, i, which, fault) ==
    IF i > Len(ops) THEN [fs |-> f, res |-> Ok]
    ELSE LET o == ops[i]
             flt == IF which = i THEN fault ELSE 0
             r == IF o.op = "dir" THEN CreateDirAll(f, o.path, flt)
                  ELSE WriteBody(f, o.path, o.data, flt)
         IN IF r.ok THEN ThemeFrom(r.fs, ops, i + 1, which, fault)
            ELSE [fs |-> r.fs,
                  res |-> Err(IF o.op = "dir" THEN "CreateThemeDir" ELSE "CreateThemeFile",
                              o.path)]

\* copy_across_theme leaving a file that is already there as it is
copy_across_theme_keep(f, cfg, which, fault) ==
    ThemeFrom(f, SelectSeq(ThemeOps(cfg), LAMBDA o : ~IsFile(f, o.path)), 1, which, fault)

\* copy_across_theme: the two create_dir_all and the nine fs::write
copy_across_theme(f, cfg, which, fault) ==
    ThemeFrom(f, ThemeOps(cfg), 1, which, fault)

\* write_book_toml: serialize, then fs::write to root/book.toml
write_book_toml(f, cfg, serFails, fault) ==
    IF serFails THEN [fs |-> f, res |-> Err("SerializeConfig", <<>>)]
    ELSE LET w == WriteBody(f, BookTomlPath, Serialize(cfg), fault) IN
         IF w.ok THEN [fs |-> w.fs, res |-> Ok]
         ELSE [fs |-> w.fs, res |-> Err("CreateConfig", BookTomlPath)]

\* The chapter a summary line links to, relative to the source directory
\* (<<>>: the line is no link).
LinkTarget(tok) ==
    CASE tok = "- [Chapter 1](./chapter_1.md)" -> <<"chapter_1.md">>
      [] tok = "- [Intro](./intro.md)" -> <<"intro.md">>
      [] OTHER -> <<>>

\* the chapter files the SUMMARY.md of f references
Referenced(f, cfg) ==
    IF ~IsFile(f, SummaryPath(cfg)) THEN {}
    ELSE LET d == f[SummaryPath(cfg)].data IN
         {Join(SrcDir(cfg), LinkTarget(d[i])) : i \in {j \in 1..Len(d) : LinkTarget(d[j]) # <<>>}}

\* MDBook::load(&self.root) succeeds: a configuration file, and a source
\* directory with a SUMMARY.md from which an existing chapter file is reachable
MDBookLoad(f, cfg) ==
    /\ IsFile(f, BookTomlPath)
    /\ IsFile(f, SummaryPath(cfg))
    /\ \E c \in Referenced(f, cfg) : IsFile(f, c)

(***************************** user edits ********************************)
UserText == <<"user text", "\n">>
UserSummary == <<"# Summary", "\n", "- [Intro](./intro.md)", "\n">>

\* what a user may put into the root between two build() calls
UserEdits(cfg) ==
    { [path |-> SummaryPath(cfg), entry |-> FileOf(UserSummary)],
      [path |-> SummaryPath(cfg), entry |-> Dir],
      [path |-> ChapterOnePath(cfg), entry |-> FileOf(UserText)],
      [path |-> GitignorePath, entry |-> FileOf(<<"target", "\n">>)],
      [path |-> Join(ThemeDir(cfg), <<"index.hbs">>), entry |-> FileOf(UserText)],
      [path |-> Join(ThemeDir(cfg), <<"extra.css">>), entry |-> FileOf(UserText)] }

Returned == {"idle", "done", "failed"}

UserEdit ==
    /\ pc \in Returned
    /\ edits < MaxEdits
    /\ \E e \in UserEdits(config) :
         LET d == CreateDirAll(fs, Parent(e.path), 0) IN
         /\ d.ok
         /\ IF e.entry.kind = "dir" THEN ~Exists(fs, e.path) ELSE ~IsDir(fs, e.path)
         /\ fs' = Put(d.fs, e.path, e.entry)
    /\ edits' = edits + 1
    /\ pc' = "idle"
    /\ result' = None
    /\ UNCHANGED <<create_gitignore, copy_theme, config, fsAtCall, builds, faults, ran, chapterOneFailedAt, rvars>>

(***************************** builder actions ***************************)
WithConfig ==
    /\ pc = "idle" /\ builds = 0 /\ edits = 0
    /\ \E cfg \in Configs : config' = cfg
    /\ pc' = "idle"
    /\ result' = None
    /\ UNCHANGED <<fs, create_gitignore, copy_theme, fsAtCall, builds, edits, faults, ran, chapterOneFailedAt, rvars>>

CopyTheme ==
    /\ pc = "idle" /\ builds = 0 /\ edits = 0
    /\ \E copy \in BOOLEAN : copy_theme' = copy
    /\ pc' = "idle"
    /\ result' = None
    /\ UNCHANGED <<fs, create_gitignore, config, fsAtCall, builds, edits, faults, ran, chapterOneFailedAt, rvars>>

CreateGitignore ==
    /\ pc = "idle" /\ builds = 0 /\ edits = 0
    /\ \E create \in BOOLEAN : create_gitignore' = create
    /\ pc' = "idle"
    /\ result' = None
    /\ UNCHANGED <<fs, copy_theme, config, fsAtCall, builds, edits, faults, ran, chapterOneFailedAt, rvars>>

\* build() is called
Build ==
    /\ pc \in Returned
    /\ builds < MaxBuilds
    /\ builds' = builds + 1
    /\ pc' = "dirs"
    /\ result' = None
    /\ fsAtCall' = fs
    /\ ran' = <<>>
    /\ UNCHANGED <<fs, create_gitignore, copy_theme, config, edits, faults,
                   chapterOneFailedAt, rvars>>

\* the stage build() is at is switched off: if self.create_gitignore, if self.copy_theme
StageSkipped ==
    \/ pc = "gitignore" /\ ~create_gitignore
    \/ pc = "theme" /\ ~copy_theme

\* StageEnds removing what is below the root when the stage failed
StageEnds_rolling_back(r, r0, next) ==
    /\ r = r0 \/ faults < MaxFaults
    /\ faults' = IF r = r0 THEN faults ELSE faults + 1
    /\ IF r.res = Ok
       THEN fs' = r.fs /\ pc' = next /\ result' = result
       ELSE /\ fs' = [p \in {q \in DOMAIN r.fs : ~Under(Root, q)} |-> r.fs[p]]
            /\ pc' = "failed" /\ result' = r.res
    /\ ran' = IF StageSkipped THEN ran ELSE Append(ran, pc)
    /\ chapterOneFailedAt' = IF r.res.kind = "CreateChapterOne" THEN builds
                              ELSE chapterOneFailedAt
    /\ UNCHANGED <<create_gitignore, copy_theme, config, fsAtCall, builds, edits, rvars>>

\* StageEnds saving the configuration also when the stage failed
StageEnds_saving_config(r, r0, next) ==
    /\ r = r0 \/ faults < MaxFaults
    /\ faults' = IF r = r0 THEN faults ELSE faults + 1
    /\ IF r.res = Ok
       THEN fs' = r.fs /\ pc' = next /\ result' = result
       ELSE /\ fs' = write_book_toml(r.fs, config, FALSE, 0).fs
            /\ pc' = "failed" /\ result' = r.res
    /\ ran' = IF StageSkipped THEN ran ELSE Append(ran, pc)
    /\ chapterOneFailedAt' = IF r.res.kind = "CreateChapterOne" THEN builds
                              ELSE chapterOneFailedAt
    /\ UNCHANGED <<create_gitignore, copy_theme, config, fsAtCall, builds, edits, rvars>>

\* a stage of build() ended with r: go on to `next`, or return the error (`?`).
\* r0 is how the stage ends when the environment refuses nothing.
StageEnds(r, r0, next) ==
    /\ r = r0 \/ faults < MaxFaults
    /\ faults' = IF r = r0 THEN faults ELSE faults + 1
    /\ fs' = r.fs
    /\ IF r.res = Ok
       THEN pc' = next /\ result' = result
       ELSE pc' = "failed" /\ result' = r.res
    /\ ran' = IF StageSkipped THEN ran ELSE Append(ran, pc)
    /\ chapterOneFailedAt' = IF r.res.kind = "CreateChapterOne" THEN builds
                              ELSE chapterOneFailedAt
    /\ UNCHANGED <<create_gitignore, copy_theme, config, fsAtCall, builds, edits, rvars>>

MaxDepth == Len(BuildDir(AltConfig))
DirFaults == 1..MaxDepth
WriteFaults == 1..3

\* the refusals the environment may still make, out of `all`
Refusals(all) == IF faults < MaxFaults THEN all ELSE {}

CreateDirectoryStructure ==
    /\ pc = "dirs"
    /\ \E r0 \in {create_directory_structure(fs, config, 0, 0)} :
       \E w \in {<<0, 0>>} \cup Refusals((1..3) \X DirFaults) :
       \E r \in {create_directory_structure(fs, config, w[1], w[2])} :
         StageEnds(r, r0, "stubs")

CreateStubFiles ==
    /\ pc = "stubs"
    /\ \E r0 \in {create_stub_files(fs, config, 0, 0)} :
       \E w \in {<<0, 0>>} \cup Refusals((1..2) \X WriteFaults) :
       \E r \in {create_stub_files(fs, config, w[1], w[2])} :
         StageEnds(r, r0, "gitignore")

BuildGitignore ==
    /\ pc = "gitignore"
    /\ IF create_gitignore
       THEN \E r0 \in {build_gitignore(fs, config, 0)} :
            \E fault \in {0} \cup Refusals(WriteFaults) :
            \E r \in {build_gitignore(fs, config, fault)} :
              StageEnds(r, r0, "theme")
       ELSE \E r \in {[fs |-> fs, res |-> Ok]} : StageEnds(r, r, "theme")

CopyAcrossTheme ==
    /\ pc = "theme"
    /\ IF copy_theme
       THEN \E r0 \in {copy_across_theme(fs, config, 0, 0)} :
            \E w \in {<<0, 0>>} \cup Refusals(((1..2) \X DirFaults) \cup ((3..11) \X WriteFaults)) :
            \E r \in {copy_across_theme(fs, config, w[1], w[2])} :
              StageEnds(r, r0, "toml")
       ELSE \E r \in {[fs |-> fs, res |-> Ok]} : StageEnds(r, r, "toml")

WriteBookToml ==
    /\ pc = "toml"
    /\ \E r0 \in {write_book_toml(fs, config, FALSE, 0)} :
       \E w \in {<<FALSE, 0>>} \cup Refusals({<<TRUE, 0>>} \cup ({FALSE} \X WriteFaults)) :
       \E r \in {write_book_toml(fs, config, w[1], w[2])} :
         StageEnds(r, r0, "load")

\* match MDBook::load(&self.root): Ok(book) is returned, Err(e) panics
Load ==
    /\ pc = "load"
    /\ IF MDBookLoad(fs, config)
       THEN pc' = "done" /\ result' = Ok
       ELSE pc' = "panicked" /\ result' = Err("Panic", <<>>)
    /\ ran' = Append(ran, pc)
    /\ UNCHANGED <<fs, create_gitignore, copy_theme, config, fsAtCall, builds, edits, faults,
                   chapterOneFailedAt, rvars>>

(***************************** MarkdownRenderer **************************)
\* ctx.destination
Dest == <<"r", "book">>

\* BookItem: Chapter { path, content }, Separator, PartTitle
Chapter(path, content) == [tag |-> "Chapter", path |-> path, content |-> content]
Separator == [tag |-> "Separator", path |-> <<>>, content |-> <<>>]
PartTitle == [tag |-> "PartTitle", path |-> <<>>, content |-> <<"Part I">>]

Items ==
    { Chapter(<<"a.md">>, <<"x">>), Chapter(<<"a.md">>, <<"y">>),
      Chapter(<<"d", "b.md">>, <<"x">>), Chapter(<<"d">>, <<"x">>),
      Separator, PartTitle }

\* the books handed to render(): book.iter() yields the items in this order.
\* The chapter paths of Books have no ".." component.
Books == UNION {[1..n -> Items] : n \in 0..MaxItems}

\* a chapter whose relative path, as a link of SUMMARY.md may, leads upwards
ChapterAbove == Chapter(<<"..", "e.md">>, <<"x">>)

\* the books with any relative chapter path
AnyBooks == UNION {[1..n -> Items \cup {ChapterAbove}] : n \in 0..MaxItems}

\* the subsets of the entries below dir that a failed removal may leave:
\* not empty, and with an entry all directories above it
Leftovers(f, dir) ==
    {k \in SUBSET EntriesUnder(f, dir) :
        /\ k # {}
        /\ \A q \in k : Parent(q) = dir \/ Parent(q) \in k}

\* utils::fs::remove_dir_content(dir): removes everything below dir and keeps
\* dir; a failed removal leaves `keep` (keep = {}: nothing is refused)
remove_dir_content(f, dir, keep) ==
    IF ~IsDir(f, dir) THEN [ok |-> FALSE, fs |-> f]
    ELSE [ok |-> keep = {},
          fs |-> [q \in {x \in DOMAIN f : ~Under(dir, x) \/ x \in keep} |-> f[q]]]

\* utils::fs::write_file(build_dir, filename, content): create_dir_all of the
\* parent of build_dir/filename, then File::create and write_all.
\* fault = <<"dir", i>> refuses the i-th mkdir, <<"write", n>> is the fault n
\* of the file write, <<"none", 0>> refuses nothing.
write_file(f, build_dir, filename, content, fault) ==
    LET path == Join(build_dir, filename)
        d == CreateDirAll(f, Parent(path), IF fault[1] = "dir" THEN fault[2] ELSE 0)
    IN IF ~d.ok THEN [ok |-> FALSE, fs |-> d.fs]
       ELSE WriteBody(d.fs, Resolve(path), content,
                      IF fault[1] = "write" THEN fault[2] ELSE 0)

\* render, lines 28-31, never removing the stale output
stale_guard_skipped(f, keep) == [fs |-> f, res |-> Ok]

\* render, lines 28-31, dropping the error of the removal
stale_guard_swallowing(f, keep) ==
    IF Exists(f, Dest)
    THEN [fs |-> remove_dir_content(f, Dest, keep).fs, res |-> Ok]
    ELSE [fs |-> f, res |-> Ok]

\* render, lines 28-31: if destination.exists() { remove_dir_content(destination)? }
stale_guard(f, keep) ==
    IF Exists(f, Dest)
    THEN LET r == remove_dir_content(f, Dest, keep) IN
         [fs |-> r.fs, res |-> IF r.ok THEN Ok ELSE Err("RemoveStale", Dest)]
    ELSE [fs |-> f, res |-> Ok]

\* the loop body keeping the file of an earlier chapter with the same path
render_item_keeping(f, item, fault) ==
    IF item.tag = "Chapter" /\ ~IsFile(f, Resolve(Join(Dest, item.path)))
    THEN LET w == write_file(f, Dest, item.path, item.content, fault) IN
         [fs |-> w.fs, wrote |-> w.ok,
          res |-> IF w.ok THEN Ok ELSE Err("WriteChapter", Join(Dest, item.path))]
    ELSE [fs |-> f, wrote |-> item.tag = "Chapter", res |-> Ok]

\* the loop body writing a file for every item, a part title as title.md
render_item_every(f, item, fault) ==
    LET w == write_file(f, Dest, IF item.tag = "Chapter" THEN item.path ELSE <<"title.md">>,
                        item.content, fault) IN
    [fs |-> w.fs, wrote |-> w.ok,
     res |-> IF w.ok THEN Ok ELSE Err("WriteChapter", Join(Dest, item.path))]

\* the loop body emptying the destination when a write fails
render_item_cleanup(f, item, fault) ==
    IF item.tag = "Chapter"
    THEN LET w == write_file(f, Dest, item.path, item.content, fault) IN
         [fs |-> IF w.ok THEN w.fs ELSE remove_dir_content(w.fs, Dest, {}).fs,
          wrote |-> w.ok,
          res |-> IF w.ok THEN Ok ELSE Err("WriteChapter", Join(Dest, item.path))]
    ELSE [fs |-> f, wrote |-> FALSE, res |-> Ok]

\* render, lines 35-37, the loop body for one item:
\* if let BookItem::Chapter(ref ch) = *item { write_file(destination, ch.path, ch.content)? }
render_item(f, item, fault) ==
    IF item.tag = "Chapter"
    THEN LET w == write_file(f, Dest, item.path, item.content, fault) IN
         [fs |-> w.fs, wrote |-> w.ok,
          res |-> IF w.ok THEN Ok ELSE Err("WriteChapter", Join(Dest, item.path))]
    ELSE [fs |-> f, wrote |-> FALSE, res |-> Ok]

\* render without the final create_dir_all
ensure_destination_skipped(f, fault) == [fs |-> f, res |-> Ok]

\* render, lines 40-41: fs::create_dir_all(&destination)
ensure_destination(f, fault) ==
    LET d == CreateDirAll(f, Dest, fault) IN
    [fs |-> d.fs, res |-> IF d.ok THEN Ok ELSE Err("CreateDestination", Dest)]

\* the callers of render()
Calls == {"c1", "c2"}

\* render(ctx) is entered by call c with ctx.book = book
Begin(c, book) ==
    /\ rpc' = [rpc EXCEPT ![c] = "remove"]
    /\ rbook' = [rbook EXCEPT ![c] = book]
    /\ ridx' = [ridx EXCEPT ![c] = 1]
    /\ rlog' = [rlog EXCEPT ![c] = <<>>]
    /\ rresult' = [rresult EXCEPT ![c] = None]
    /\ rstale' = [rstale EXCEPT ![c] = {q \in DOMAIN fs : q = Dest \/ Under(Dest, q)}]
    /\ rshared' = [d \in Calls |->
                     IF d = c THEN \E e \in Calls \ {c} : rpc[e] \in {"remove", "write"}
                     ELSE rshared[d] \/ rpc[d] # "idle"]
    /\ UNCHANGED <<fs, bvars>>

\* the usage contract: at most one active render() per destination
RenderStart(c) ==
    /\ \A d \in Calls : rpc[d] = "idle"
    /\ \E book \in Books : Begin(c, book)

\* render() under the usage contract, on a book with any relative chapter path
RenderStartAny(c) ==
    /\ \A d \in Calls : rpc[d] = "idle"
    /\ \E book \in AnyBooks : Begin(c, book)

\* the books handed to the render() calls that run beside each other
ConcBooks ==
    UNION {[1..n -> {Chapter(<<"a.md">>, <<"x">>), Chapter(<<"d", "b.md">>, <<"x">>)}] :
             n \in 0..MaxConcItems}

\* render() entered while another call may be running: nothing in render()
\* or in the calls it makes serializes the writers of one destination
RenderStartConc(c) ==
    /\ rpc[c] = "idle"
    /\ \E book \in ConcBooks : Begin(c, book)

\* a step of render() ended with r: go on at `next`, or return the error (`?`)
StepEnds(c, r, r0, next) ==
    /\ faults' = IF r = r0 THEN faults ELSE faults + 1
    /\ fs' = r.fs
    /\ IF r.res = Ok
       THEN /\ rpc' = [rpc EXCEPT ![c] = next]
            /\ rresult' = [rresult EXCEPT ![c] = IF next = "done" THEN Ok ELSE @]
       ELSE /\ rpc' = [rpc EXCEPT ![c] = "failed"]
            /\ rresult' = [rresult EXCEPT ![c] = r.res]
    /\ UNCHANGED <<create_gitignore, copy_theme, config, pc, result, fsAtCall, builds,
                   edits, ran, chapterOneFailedAt, rbook, rstale, rshared>>

RenderRemove(c) ==
    /\ rpc[c] = "remove"
    /\ \E r0 \in {stale_guard(fs, {})} :
       \E keep \in {{}} \cup Refusals(Leftovers(fs, Dest)) :
       \E r \in {stale_guard(fs, keep)} :
         /\ StepEnds(c, r, r0, "write")
         /\ UNCHANGED <<ridx, rlog>>

ItemFaults == ({"dir"} \X DirFaults) \cup ({"write"} \X (1..2))

RenderItem(c) ==
    /\ rpc[c] = "write"
    /\ ridx[c] <= Len(rbook[c])
    /\ \E r0 \in {render_item(fs, rbook[c][ridx[c]], <<"none", 0>>)} :
       \E fault \in {<<"none", 0>>} \cup Refusals(ItemFaults) :
       \E r \in {render_item(fs, rbook[c][ridx[c]], fault)} :
         /\ StepEnds(c, r, r0, "write")
         /\ ridx' = [ridx EXCEPT ![c] = IF r.res = Ok THEN @ + 1 ELSE @]
         /\ rlog' = [rlog EXCEPT ![c] = IF r.wrote THEN Append(@, ridx[c]) ELSE @]

RenderFinish(c) ==
    /\ rpc[c] = "write"
    /\ ridx[c] > Len(rbook[c])
    /\ \E r0 \in {ensure_destination(fs, 0)} :
       \E fault \in {0} \cup Refusals(DirFaults) :
       \E r \in {ensure_destination(fs, fault)} :
         /\ StepEnds(c, r, r0, "done")
         /\ UNCHANGED <<ridx, rlog>>

\* the caller has taken the result of call c
RenderReturn(c) ==
    /\ rpc[c] \in {"done", "failed"}
    /\ rpc' = [rpc EXCEPT ![c] = "idle"]
    /\ rbook' = [rbook EXCEPT ![c] = <<>>]
    /\ ridx' = [ridx EXCEPT ![c] = 0]
    /\ rlog' = [rlog EXCEPT ![c] = <<>>]
    /\ rresult' = [rresult EXCEPT ![c] = None]
    /\ rstale' = [rstale EXCEPT ![c] = {}]
    /\ rshared' = [rshared EXCEPT ![c] = FALSE]
    /\ UNCHANGED <<fs, bvars>>

(***************************** specification *****************************)
RenderIdle ==
    /\ rpc = [c \in Calls |-> "idle"]
    /\ ridx = [c \in Calls |-> 0]
    /\ rbook = [c \in Calls |-> <<>>]
    /\ rresult = [c \in Calls |-> None]
    /\ rlog = [c \in Calls |-> <<>>]
    /\ rstale = [c \in Calls |-> {}]
    /\ rshared = [c \in Calls |-> FALSE]

BuilderIdle ==
    /\ create_gitignore = FALSE
    /\ copy_theme = FALSE
    /\ config = DefaultConfig
    /\ pc = "idle"
    /\ result = None
    /\ fsAtCall = EmptyFS
    /\ builds = 0
    /\ edits = 0
    /\ ran = <<>>
    /\ chapterOneFailedAt = 0

\* BookBuilder::new(root), on a target that does not exist yet or is empty
Init ==
    /\ fs \in {EmptyFS, Put(EmptyFS, Root, Dir)}
    /\ create_gitignore = FALSE
    /\ copy_theme = FALSE
    /\ config = DefaultConfig
    /\ pc = "idle"
    /\ result = None
    /\ fsAtCall = fs
    /\ builds = 0
    /\ edits = 0
    /\ faults = 0
    /\ ran = <<>>
    /\ chapterOneFailedAt = 0
    /\ RenderIdle

Next ==
    \/ UserEdit
    \/ WithConfig
    \/ CopyTheme
    \/ CreateGitignore
    \/ Build
    \/ CreateDirectoryStructure
    \/ CreateStubFiles
    \/ BuildGitignore
    \/ CopyAcrossTheme
    \/ WriteBookToml
    \/ Load

Spec == Init /\ [][Next]_vars

\* what is at the destination when the renderer is first called
InitialTargets ==
    { EmptyFS,
      Put(Put(EmptyFS, Root, Dir), <<"r", "keep.txt">>, FileOf(UserText)),
      Put(Put(Put(Put(Put(EmptyFS, Root, Dir), Dest, Dir),
                  <<"r", "book", "old.html">>, FileOf(<<"stale">>)),
              <<"r", "book", "img">>, Dir),
          <<"r", "book", "img", "x.png">>, FileOf(<<"stale">>)),
      Put(Put(EmptyFS, Root, Dir), Dest, FileOf(UserText)) }

InitRender ==
    /\ fs \in InitialTargets
    /\ BuilderIdle
    /\ faults = 0
    /\ RenderIdle

NextRender ==
    \E c \in Calls :
        \/ RenderStart(c)
        \/ RenderRemove(c)
        \/ RenderItem(c)
        \/ RenderFinish(c)
        \/ RenderReturn(c)

SpecRender == InitRender /\ [][NextRender]_vars

\* the renderer on books with any relative chapter path
NextRenderAny ==
    \E c \in Calls :
        \/ RenderStartAny(c)
        \/ RenderRemove(c)
        \/ RenderItem(c)
        \/ RenderFinish(c)
        \/ RenderReturn(c)

SpecRenderAny == InitRender /\ [][NextRenderAny]_vars

\* render() calls against one destination without the usage contract: the
\* removal, each chapter write and the final create_dir_all of the calls
\* interleave
NextRenderConc ==
    \E c \in Calls :
        \/ RenderStartConc(c)
        \/ RenderRemove(c)
        \/ RenderItem(c)
        \/ RenderFinish(c)
        \/ RenderReturn(c)

\* the calls meet no destination at all, or the output of an earlier render()
InitRenderConc ==
    /\ fs \in {t \in InitialTargets : t = EmptyFS \/ IsDir(t, Dest)}
    /\ BuilderIdle
    /\ faults = 0
    /\ RenderIdle

SpecRenderConc == InitRenderConc /\ [][NextRenderConc]_vars


(***************************** claims: BookBuilder ***********************)
DefaultOptions == config = DefaultConfig /\ ~copy_theme /\ ~create_gitignore

\* C1: build() with default options on an empty target directory, when it
\* returns success, leaves under root exactly book.toml, src/, book/,
\* src/SUMMARY.md and src/chapter_1.md.
C1_EmptyTargetDefault ==
    (pc = "done" /\ DefaultOptions /\ EntriesUnder(fsAtCall, Root) = {})
        => /\ EntriesUnder(fs, Root) =
                { <<"r", "book.toml">>, <<"r", "src">>, <<"r", "book">>,
                  <<"r", "src", "SUMMARY.md">>, <<"r", "src", "chapter_1.md">> }
           /\ IsDir(fs, <<"r", "src">>) /\ IsDir(fs, <<"r", "book">>)
           /\ IsFile(fs, <<"r", "book.toml">>)
           /\ IsFile(fs, <<"r", "src", "SUMMARY.md">>)
           /\ IsFile(fs, <<"r", "src", "chapter_1.md">>)

C1_Witness ==
    /\ pc = "done" /\ DefaultOptions
    /\ fsAtCall = Put(EmptyFS, Root, Dir)
    /\ IsFile(fs, <<"r", "src", "chapter_1.md">>)

\* C2: a later build() call on the same root leaves an existing SUMMARY.md and
\* the existing chapter files it references as they were when the call was
\* made, and once its stages 1-5 succeeded book.toml holds the serialized
\* current Configuration.
C2_Idempotent ==
    (builds >= 2 /\ pc # "idle")
        => /\ Exists(fsAtCall, SummaryPath(config))
                => /\ Exists(fs, SummaryPath(config))
                   /\ fs[SummaryPath(config)] = fsAtCall[SummaryPath(config)]
                   /\ \A c \in Referenced(fsAtCall, config) :
                        Exists(fsAtCall, c) => Exists(fs, c) /\ fs[c] = fsAtCall[c]
           /\ pc \in {"load", "done", "panicked"}
                => /\ IsFile(fs, BookTomlPath)
                   /\ fs[BookTomlPath].data = Serialize(config)

C2_Witness ==
    /\ builds = 2 /\ pc = "done"
    /\ IsFile(fsAtCall, ChapterOnePath(config))
    /\ IsFile(fsAtCall, SummaryPath(config))
    /\ fsAtCall[ChapterOnePath(config)] = FileOf(UserText)
    /\ fsAtCall[SummaryPath(config)] = FileOf(StubSummary)
    /\ fs[ChapterOnePath(config)] = FileOf(UserText)

\* the stub-content stage of the running build() has just run
StubStageRan ==
    \/ pc = "gitignore"
    \/ pc = "failed" /\ result.kind \in {"CreateSummary", "CreateChapterOne"}

\* C3: every file that was in the source directory when build() was called
\* has the same content after the stub-content stage has run.
C3_StubStageKeepsUserFiles ==
    StubStageRan
        => \A p \in FilesUnder(fsAtCall, SrcDir(config)) :
             Exists(fs, p) /\ fs[p] = fsAtCall[p]

\* root holds a loadable book: a configuration file, and a SUMMARY.md in the
\* source directory from which an existing chapter file is reachable
LoadableBook ==
    /\ IsFile(fs, BookTomlPath)
    /\ IsFile(fs, SummaryPath(config))
    /\ \E c \in Referenced(fs, config) : IsFile(fs, c)

\* C4: whenever stages 1-5 of build() have succeeded root holds a loadable
\* book, and build() never panics.
C4_AlwaysLoadable ==
    /\ pc = "load" => LoadableBook
    /\ pc # "panicked"

\* C5: with create_gitignore(true), when the gitignore stage has succeeded
\* root/.gitignore holds exactly the build directory's relative path and one
\* newline, whatever was at that path before.
C5_GitignoreExact ==
    (pc = "theme" /\ create_gitignore)
        => /\ IsFile(fs, <<"r", ".gitignore">>)
           /\ config.build_dir = <<"book">>
                => fs[<<"r", ".gitignore">>].data = <<"book", "\n">>
           /\ config.build_dir = <<"out", "book">>
                => fs[<<"r", ".gitignore">>].data = <<"out", "/", "book", "\n">>
           /\ fs[<<"r", ".gitignore">>].data = Display(config.build_dir) \o <<"\n">>

C5_Witness ==
    /\ pc = "theme" /\ create_gitignore
    /\ IsFile(fsAtCall, GitignorePath)
    /\ fsAtCall[GitignorePath].data = <<"target", "\n">>
    /\ fs[GitignorePath].data # <<"target", "\n">>

\* the nine theme files: path below the theme directory, embedded default
NineThemeFiles ==
    { [rel |-> <<"index.hbs">>, data |-> <<"theme::INDEX">>],
      [rel |-> <<"favicon.png">>, data |-> <<"theme::FAVICON">>],
      [rel |-> <<"book.js">>, data |-> <<"theme::JS">>],
      [rel |-> <<"highlight.css">>, data |-> <<"theme::HIGHLIGHT_CSS">>],
      [rel |-> <<"highlight.js">>, data |-> <<"theme::HIGHLIGHT_JS">>],
      [rel |-> <<"css", "general.css">>, data |-> <<"theme::GENERAL_CSS">>],
      [rel |-> <<"css", "chrome.css">>, data |-> <<"theme::CHROME_CSS">>],
      [rel |-> <<"css", "print.css">>, data |-> <<"theme::PRINT_CSS">>],
      [rel |-> <<"css", "variables.css">>, data |-> <<"theme::VARIABLES_CSS">>] }

\* root joined with config.html.theme if that is set, else with <src>/theme
ResolvedThemeDir ==
    IF config.theme # <<>> THEN Root \o config.theme[1]
    ELSE Root \o config.src \o <<"theme">>

NineThemeFilesWritten ==
    \A t \in NineThemeFiles :
        /\ IsFile(fs, ResolvedThemeDir \o t.rel)
        /\ fs[ResolvedThemeDir \o t.rel].data = t.data

\* C6 as claimed: with copy_theme(true), after a successful build() the theme
\* directory contains exactly the nine named files with the embedded content.
C6_ThemeExactlyNine ==
    (pc = "done" /\ copy_theme)
        => /\ NineThemeFilesWritten
           /\ FilesUnder(fs, ResolvedThemeDir) =
                {ResolvedThemeDir \o t.rel : t \in NineThemeFiles}

\* C6 as amended: with copy_theme(true), after a successful build() the theme
\* directory contains the nine named files with the embedded content,
\* overwriting what was at those names; what else was in the directory when
\* build() was called is still there.
C6_ThemeNinePresent ==
    (pc = "done" /\ copy_theme)
        => /\ NineThemeFilesWritten
           /\ \A p \in EntriesUnder(fsAtCall, ResolvedThemeDir) : Exists(fs, p)

C6_Witness ==
    /\ pc = "done" /\ copy_theme
    /\ IsFile(fsAtCall, ResolvedThemeDir \o <<"index.hbs">>)
    /\ fsAtCall[ResolvedThemeDir \o <<"index.hbs">>] = FileOf(UserText)
    /\ fs[ResolvedThemeDir \o <<"index.hbs">>].data = <<"theme::INDEX">>

(***************************** claims: MarkdownRenderer ******************)
ChapterIdx(book) == {i \in 1..Len(book) : book[i].tag = "Chapter"}

\* the content render() leaves at the path of chapter i: that of the last
\* chapter of the book with this path
LastContent(book, i) ==
    LET same == {j \in ChapterIdx(book) : book[j].path = book[i].path}
        last == CHOOSE j \in same : \A k \in same : k <= j
    IN book[last].content

\* q is a directory on the way from destination to the file of a chapter
OnTheWay(book, q) ==
    \E i \in ChapterIdx(book) : Under(q, Dest \o book[i].path)

\* C7: after render() returned success, the files below destination are
\* exactly the files of the current book's chapters; nothing else that was
\* there before the call is left.
C7_OnlyCurrentOutput ==
    \A c \in Calls :
        rpc[c] = "done"
            => /\ FilesUnder(fs, Dest) = {Dest \o rbook[c][i].path : i \in ChapterIdx(rbook[c])}
               /\ \A i \in ChapterIdx(rbook[c]) :
                    fs[Dest \o rbook[c][i].path].data = LastContent(rbook[c], i)
               /\ \A q \in EntriesUnder(fs, Dest) :
                    fs[q].kind = "dir" => OnTheWay(rbook[c], q)

C7_Witness ==
    \E c \in Calls :
        /\ rpc[c] = "done"
        /\ ChapterIdx(rbook[c]) # {}
        /\ <<"r", "book", "img", "x.png">> \in rstale[c]
        /\ ~Exists(fs, <<"r", "book", "img">>)

\* C8: after every successful render() destination is a directory, also when
\* it did not exist before and the book has no chapter; with no chapter it is
\* empty.
C8_DestinationExists ==
    \A c \in Calls :
        rpc[c] = "done"
            => /\ IsDir(fs, Dest)
               /\ ChapterIdx(rbook[c]) = {} => EntriesUnder(fs, Dest) = {}

C8_Witness ==
    \E c \in Calls :
        /\ rpc[c] = "done"
        /\ ChapterIdx(rbook[c]) = {}
        /\ Dest \notin rstale[c]
        /\ IsDir(fs, Dest)

\* the indices of the chapters among the first n items, in document order
RECURSIVE ChaptersUpTo(_, _)
ChaptersUpTo(book, n) ==
    IF n = 0 THEN <<>>
    ELSE IF book[n].tag = "Chapter" THEN Append(ChaptersUpTo(book, n - 1), n)
    ELSE ChaptersUpTo(book, n - 1)

\* C9: render() writes one file per Chapter item, none for a Separator or a
\* PartTitle, and writes them in document order: at every point the writes
\* made are those of the chapters among the items passed, in their order.
C9_WritesInOrder ==
    \A c \in Calls :
        rpc[c] \in {"write", "done", "failed"}
            => rlog[c] = ChaptersUpTo(rbook[c], ridx[c] - 1)

C9_Witness ==
    \E c \in Calls :
        /\ rpc[c] = "done"
        /\ Len(rbook[c]) = 3
        /\ rbook[c][2].tag # "Chapter"
        /\ rlog[c] = <<1, 3>>

\* C10: when the write of chapter k fails render() returns the error, the
\* files of the chapters before k are still below destination (with their
\* content, unless a later chapter up to k has the same path), no chapter
\* after k is written, and nothing is cleaned up.
C10_NotTransactional ==
    \A c \in Calls :
        (rpc[c] = "failed" /\ rresult[c].kind = "WriteChapter")
            => LET book == rbook[c]
                   k == ridx[c]
               IN /\ book[k].tag = "Chapter"
                  /\ \A j \in ChapterIdx(book) :
                       j < k
                         => /\ IsFile(fs, Dest \o book[j].path)
                            /\ (\A i \in ChapterIdx(book) :
                                    (j < i /\ i <= k) => book[i].path # book[j].path)
                                 => fs[Dest \o book[j].path].data = book[j].content
                  /\ \A i \in 1..Len(rlog[c]) : rlog[c][i] < k
                  /\ \A j \in ChapterIdx(book) :
                       (j > k /\ \A i \in ChapterIdx(book) :
                                    i <= k => book[i].path # book[j].path)
                         => ~IsFile(fs, Dest \o book[j].path)

C10_Witness ==
    \E c \in Calls :
        /\ rpc[c] = "failed" /\ rresult[c].kind = "WriteChapter"
        /\ ridx[c] = 2 /\ Len(rbook[c]) = 3
        /\ rbook[c][3].tag = "Chapter"
        /\ rlog[c] = <<1>>
        /\ IsFile(fs, Dest \o rbook[c][1].path)

----------------------------------------------------------------------------
(* Errors and order of the stages of build() *)

\* the stage of build() that produces an error kind (the map_err of each stage)
StageOfKind(kind) ==
    CASE kind = "CreateScaffoldDirectory" -> "dirs"
      [] kind \in {"CreateSummary", "CreateChapterOne"} -> "stubs"
      [] kind = "CreateGitignore" -> "gitignore"
      [] kind \in {"CreateThemeDir", "CreateThemeFile"} -> "theme"
      [] kind \in {"SerializeConfig", "CreateConfig"} -> "toml"
      [] OTHER -> "none"

\* the filesystem entries an error of the kind may name
EntriesOfKind(kind) ==
    CASE kind = "CreateScaffoldDirectory" ->
             {Root, Root \o config.src, Root \o config.build_dir}
      [] kind = "CreateSummary" -> {Root \o config.src \o <<"SUMMARY.md">>}
      [] kind = "CreateChapterOne" -> {Root \o config.src \o <<"chapter_1.md">>}
      [] kind = "CreateGitignore" -> {Root \o <<".gitignore">>}
      [] kind = "CreateThemeDir" -> {ResolvedThemeDir, ResolvedThemeDir \o <<"css">>}
      [] kind = "CreateThemeFile" -> {ResolvedThemeDir \o t.rel : t \in NineThemeFiles}
      [] kind = "CreateConfig" -> {Root \o <<"book.toml">>}
      [] OTHER -> {}

\* build() returned the error of one of the stages 1-5
StageFailed == pc = "failed"

\* C11 as claimed: every error build() returns from stages 1-5 is of a kind
\* that belongs to the stage that failed, and to no other stage, and carries
\* the path of the filesystem entry involved.
C11_KindAndPath ==
    StageFailed
        => /\ StageOfKind(result.kind) = ran[Len(ran)]
           /\ result.path \in EntriesOfKind(result.kind)

\* C11 as amended: every error build() returns from stages 1-5 is of a kind
\* that belongs to the stage that failed, and to no other stage; every kind
\* but SerializeConfig carries the path of the filesystem entry involved, and
\* SerializeConfig, raised before book.toml is opened, carries none.
C11_KindAndPathButSerialize ==
    StageFailed
        => /\ StageOfKind(result.kind) = ran[Len(ran)]
           /\ IF result.kind = "SerializeConfig"
              THEN result.path = <<>>
              ELSE result.path \in EntriesOfKind(result.kind)

C11_Witness ==
    /\ StageFailed
    /\ result.kind = "CreateThemeFile"
    /\ ran[Len(ran)] = "theme"
    /\ result.path = ResolvedThemeDir \o <<"css", "print.css">>

\* the stages of build() in program order
StageOrder == <<"dirs", "stubs", "gitignore", "theme", "toml", "load">>

\* the stages the options of the builder switch on, in program order
StagesOn ==
    LET On(s) == /\ s = "gitignore" => create_gitignore
                 /\ s = "theme" => copy_theme
    IN SelectSeq(StageOrder, On)

\* the filesystem entries a stage of build() may create or write
OutputsOf(stage) ==
    CASE stage = "dirs" ->
             {Prefix(Root \o config.src, i) : i \in 1..Len(Root \o config.src)}
               \cup {Prefix(Root \o config.build_dir, i) :
                       i \in 1..Len(Root \o config.build_dir)}
      [] stage = "stubs" -> {Root \o config.src \o <<"SUMMARY.md">>,
                             Root \o config.src \o <<"chapter_1.md">>}
      [] stage = "gitignore" -> {Root \o <<".gitignore">>}
      [] stage = "theme" ->
             {Prefix(ResolvedThemeDir, i) : i \in 1..Len(ResolvedThemeDir)}
               \cup {ResolvedThemeDir \o <<"css">>}
               \cup {ResolvedThemeDir \o t.rel : t \in NineThemeFiles}
      [] stage = "toml" -> {Root \o <<"book.toml">>}
      [] OTHER -> {}

\* the entry at p is not what it was when build() was called
ChangedSinceCall(p) ==
    \/ (p \in DOMAIN fs) # (p \in DOMAIN fsAtCall)
    \/ p \in DOMAIN fs /\ p \in DOMAIN fsAtCall /\ fs[p] # fsAtCall[p]

\* C12: build() runs its stages in the order directories, stubs, optional
\* .gitignore, optional theme, book.toml, load; when a stage fails build()
\* returns that stage's error, and only the stages that ran up to then have
\* written to the filesystem: no later stage wrote, and book.toml is as it
\* was at the call when one of the stages 1-4 failed.
C12_OrderedFailFast ==
    pc # "idle"
        => /\ Len(ran) <= Len(StagesOn)
           /\ ran = SubSeq(StagesOn, 1, Len(ran))
           /\ \A p \in DOMAIN fs \cup DOMAIN fsAtCall :
                ChangedSinceCall(p) => \E i \in 1..Len(ran) : p \in OutputsOf(ran[i])
           /\ pc = "failed"
                => /\ StageOfKind(result.kind) = ran[Len(ran)]
                   /\ ran[Len(ran)] # "toml"
                        => ~ChangedSinceCall(Root \o <<"book.toml">>)

C12_Witness ==
    /\ pc = "failed"
    /\ ran = <<"dirs", "stubs", "gitignore", "theme">>
    /\ IsFile(fs, Root \o <<".gitignore">>)
    /\ IsFile(fs, ResolvedThemeDir \o <<"index.hbs">>)
    /\ ~Exists(fs, Root \o <<"book.toml">>)

\* what a stage of build() that completed has left on the filesystem
LeftBy(stage) ==
    CASE stage = "dirs" -> /\ IsDir(fs, Root)
                           /\ IsDir(fs, Root \o config.src)
                           /\ IsDir(fs, Root \o config.build_dir)
      [] stage = "stubs" -> Exists(fs, Root \o config.src \o <<"SUMMARY.md">>)
      [] stage = "gitignore" -> IsFile(fs, Root \o <<".gitignore">>)
      [] stage = "theme" -> NineThemeFilesWritten
      [] stage = "toml" -> IsFile(fs, Root \o <<"book.toml">>)
      [] OTHER -> TRUE

\* C13: build() never removes a filesystem entry and rolls nothing back: in
\* every state of a build() call, returned or not, every file and directory
\* that existed when the call started still exists, and after a failure what
\* the stages before the failing one created is still on disk.
C13_NoRollback ==
    pc # "idle"
        => /\ DOMAIN fsAtCall \subseteq DOMAIN fs
           /\ \A p \in DOMAIN fsAtCall : fs[p].kind = fsAtCall[p].kind
           /\ pc = "failed" => \A i \in 1..(Len(ran) - 1) : LeftBy(ran[i])

C13_Witness ==
    /\ pc = "failed"
    /\ result.kind = "CreateChapterOne"
    /\ ~Exists(fsAtCall, Root \o config.src)
    /\ IsDir(fs, Root \o config.build_dir)
    /\ IsFile(fs, Root \o config.src \o <<"SUMMARY.md">>)

----------------------------------------------------------------------------
(* Order and reach of the steps of render() *)

\* C14: when destination exists, render() removes its content before the
\* first chapter write; a failed removal is returned as the error of render(),
\* and then no chapter file has been written, nothing new is below
\* destination, and the final directory creation has not run. When the
\* writes begin, the removal has succeeded.
C14_RemovalFirstOrError ==
    \A c \in Calls :
        /\ rpc[c] = "remove" => rlog[c] = <<>> /\ ridx[c] = 1
        /\ (rpc[c] = "write" /\ rlog[c] = <<>>)
             => /\ EntriesUnder(fs, Dest) = {}
                /\ Dest \in rstale[c] => IsDir(fs, Dest)
        /\ (rpc[c] = "failed" /\ rresult[c].kind = "RemoveStale")
             => /\ rlog[c] = <<>> /\ ridx[c] = 1
                /\ Dest \in rstale[c]
                /\ EntriesUnder(fs, Dest) \subseteq rstale[c]
                /\ rresult[c].path = Dest

C14_Witness ==
    \E c \in Calls :
        /\ rpc[c] = "failed" /\ rresult[c].kind = "RemoveStale"
        /\ Len(rbook[c]) >= 1 /\ rbook[c][1].tag = "Chapter"
        /\ IsDir(fs, Dest)
        /\ EntriesUnder(fs, Dest) # {}
        /\ ~Exists(fs, Dest \o rbook[c][1].path)

\* the entry at p differs before and after the step
Touched(p) ==
    \/ (p \in DOMAIN fs) # (p \in DOMAIN fs')
    \/ p \in DOMAIN fs /\ p \in DOMAIN fs' /\ fs[p] # fs'[p]

\* C15: for every book whose chapters carry relative paths, every file or
\* directory a step of render() creates, changes or removes lies inside the
\* subtree of destination; the only other entries touched are destination
\* itself and the directories above it, which are created and never removed.
C15_StaysInsideDestination ==
    [][\A p \in DOMAIN fs \cup DOMAIN fs' :
          Touched(p) => \/ Under(Dest, p)
                        \/ p = Dest
                        \/ Under(p, Dest) /\ p \notin DOMAIN fs /\ IsDir(fs', p)]_vars

\* the files render() of the book leaves below destination, with their content
OutputOf(book) ==
    [q \in {Dest \o book[i].path : i \in ChapterIdx(book)} |->
        LET i == CHOOSE j \in ChapterIdx(book) : Dest \o book[j].path = q
        IN LastContent(book, i)]

\* the files below destination, with their content
FilesAtDest == [q \in FilesUnder(fs, Dest) |-> fs[q].data]

\* C16: render() calls are not serialized, and the postcondition of render()
\* rests on the usage contract: a call that returned success and ran alone
\* (no other call ran since it was entered) has left at destination exactly
\* the output of its book. The witness is the state the claim says is
\* reachable without the contract: both calls returned success and the files
\* of destination are the output of neither book.
C16_AloneGivesOwnOutput ==
    \A c \in Calls :
        (rpc[c] = "done" /\ ~rshared[c])
            => /\ IsDir(fs, Dest)
               /\ FilesAtDest = OutputOf(rbook[c])

C16_Witness ==
    /\ \A c \in Calls : rpc[c] = "done" /\ rresult[c] = Ok
    /\ \A c \in Calls : FilesAtDest # OutputOf(rbook[c])

----------------------------------------------------------------------------
(* Retrying build() after a failed stub stage *)

\* C17: a build() that wrote SUMMARY.md and then failed on chapter_1.md
\* (CreateChapterOne) is not repaired by retrying: in every state of every
\* later build() on the root SUMMARY.md is present and chapter_1.md is what
\* it was when that call started, so the builder never writes the chapter
\* its stub summary links.
C17_RetryLeavesChapterOut ==
    (chapterOneFailedAt > 0 /\ builds > chapterOneFailedAt /\ pc # "idle")
        => /\ Exists(fs, Root \o config.src \o <<"SUMMARY.md">>)
           /\ ~ChangedSinceCall(Root \o config.src \o <<"chapter_1.md">>)

C17_Witness ==
    /\ chapterOneFailedAt > 0 /\ builds > chapterOneFailedAt
    /\ pc \in {"done", "panicked"}
    /\ "stubs" \in {ran[i] : i \in 1..Len(ran)}
    /\ fs[Root \o config.src \o <<"SUMMARY.md">>] = FileOf(StubSummary)
    /\ ~Exists(fs, Root \o config.src \o <<"chapter_1.md">>)

----------------------------------------------------------------------------
(* Chapters of one book sharing a path *)

\* chapter j is the last chapter of the book with its path
LastOfPath(book, j) ==
    \A k \in ChapterIdx(book) : k > j => book[k].path # book[j].path

\* C18: when Chapter items of the book share a relative path, a successful
\* render() leaves at destination/path the content of the last of them in
\* document order, each later write having replaced the earlier one; the
\* files below destination are one per distinct path, so they can be fewer
\* than the Chapter items.
C18_LastChapterWins ==
    \A c \in Calls :
        rpc[c] = "done"
            => /\ \A j \in ChapterIdx(rbook[c]) :
                    LastOfPath(rbook[c], j)
                      => /\ IsFile(fs, Dest \o rbook[c][j].path)
                         /\ fs[Dest \o rbook[c][j].path].data = rbook[c][j].content
               /\ Cardinality(FilesUnder(fs, Dest)) =
                    Cardinality({rbook[c][j].path : j \in ChapterIdx(rbook[c])})
               /\ Cardinality(FilesUnder(fs, Dest)) <= Len(rlog[c])

C18_Witness ==
    \E c \in Calls :
        /\ rpc[c] = "done"
        /\ \E i, j \in ChapterIdx(rbook[c]) :
             /\ i < j
             /\ rbook[c][i].path = rbook[c][j].path
             /\ rbook[c][i].content # rbook[c][j].content
             /\ LastOfPath(rbook[c], j)
             /\ fs[Dest \o rbook[c][j].path].data = rbook[c][j].content
        /\ Cardinality(FilesUnder(fs, Dest)) < Cardinality(ChapterIdx(rbook[c]))

====
